---- MODULE Spec2Model ----
(***************************************************************************)
(* Model of src/bot.py: a chat bot that takes a media URL, offers quality  *)
(* choices with a 30 s automatic default, downloads the media and sends it *)
(* back, split into parts when it exceeds the delivery size limit.         *)
(*                                                                         *)
(* Text is modelled as a sequence of tokens (a token is a piece of text    *)
(* that the code's patterns never cut): "ddinstagram.com" is the two       *)
(* tokens "dd","instagram.com", so that the substring tests of the code    *)
(* ("instagram.com" in url) see what they see on the real text.            *)
(*                                                                         *)
(* The collaborators (yt-dlp, ffmpeg, the Telegram transport) are black    *)
(* boxes whose outcomes are chosen nondeterministically.                   *)
(*                                                                         *)
(* As written, line 216-218 of src/bot.py lacks the closing parenthesis of *)
(* reply_text(...); the model reads the call as closed after reply_markup. *)
(***************************************************************************)
EXTENDS Integers, Sequences, FiniteSets, TLC

(***************************************************************************)
(* Program constants (src/bot.py:34-37, 189).                               *)
(***************************************************************************)
MAX_FILE_SIZE == 50 * 1024 * 1024
LONG_VIDEO_DURATION == 30 * 60
VERY_LONG_DURATION == 120 * 60
PRESENT_SIZE_LIMIT == 500 * 1024 * 1024

(***************************************************************************)
(* Bounds of the model.                                                    *)
(***************************************************************************)
MaxSubmissions == 2
MaxClicks == 1
MaxParts == 2
MaxFormats == 3

(***************************************************************************)
(* Text operations of Python on token sequences.                           *)
(***************************************************************************)
Occurs(s, pat, i) ==
    /\ i >= 1
    /\ i + Len(pat) - 1 <= Len(s)
    /\ SubSeq(s, i, i + Len(pat) - 1) = pat

\* pat in s
Contains(s, pat) == \E i \in 1..Len(s) : Occurs(s, pat, i)

\* s.find(pat) + 1 : position of the first occurrence, 0 when there is none
Find(s, pat) ==
    IF Contains(s, pat)
    THEN CHOOSE i \in 1..Len(s) :
            /\ Occurs(s, pat, i)
            /\ \A j \in 1..(i - 1) : ~Occurs(s, pat, j)
    ELSE 0

\* s.split(pat)[0]
SplitFirst(s, pat) ==
    IF Find(s, pat) = 0 THEN s ELSE SubSeq(s, 1, Find(s, pat) - 1)

\* the text after the first occurrence of pat (pat occurs in s)
AfterFirst(s, pat) == SubSeq(s, Find(s, pat) + Len(pat), Len(s))

\* len(s.split(pat)) > 1
SplitHasSecond(s, pat) == Contains(s, pat)

\* s.split(pat)[1]
SplitSecond(s, pat) == SplitFirst(AfterFirst(s, pat), pat)

\* s.replace(pat, rep)
RECURSIVE Replace(_, _, _)
Replace(s, pat, rep) ==
    IF Find(s, pat) = 0
    THEN s
    ELSE SubSeq(s, 1, Find(s, pat) - 1) \o rep \o Replace(AfterFirst(s, pat), pat, rep)

\* s.startswith(pat)
StartsWith(s, pat) == Occurs(s, pat, 1)

\* s.strip()
RECURSIVE LStrip(_)
LStrip(s) == IF s # << >> /\ Head(s) = " " THEN LStrip(Tail(s)) ELSE s

RECURSIVE RStrip(_)
RStrip(s) ==
    IF s # << >> /\ s[Len(s)] = " " THEN RStrip(SubSeq(s, 1, Len(s) - 1)) ELSE s

Strip(s) == RStrip(LStrip(s))

(***************************************************************************)
(* Candidate formats, as the extraction collaborator describes them.  A    *)
(* missing 'filesize' is the value 0: line 189 treats None and 0 alike.    *)
(***************************************************************************)
Fmt(id, ext, acodec, vcodec, note, filesize, abr) ==
    [format_id |-> id, ext |-> ext, acodec |-> acodec, vcodec |-> vcodec,
     format_note |-> note, filesize |-> filesize, abr |-> abr]

Take(s, n) == SubSeq(s, 1, IF Len(s) < n THEN Len(s) ELSE n)

\* VideoProcessor.select_best_format, lines 68-73
IsPreferred(f) ==
    /\ ~(f.acodec = "none" /\ f.vcodec # "none")
    /\ f.ext = "mp4"

Preferred(formats) == SelectSeq(formats, IsPreferred)

\* a variant of RANKED_RESOLUTIONS: the ranks are tried from the lowest up
RANKED_RESOLUTIONS_Ascending == << "360", "480", "720", "1080" >>

\* line 78
RANKED_RESOLUTIONS == << "1080", "720", "480", "360" >>

\* lines 79-81: the first preferred format whose note contains res, 0 if none
FirstWithRes(preferred, res) ==
    IF \E i \in 1..Len(preferred) : Contains(preferred[i].format_note, << res >>)
    THEN CHOOSE i \in 1..Len(preferred) :
            /\ Contains(preferred[i].format_note, << res >>)
            /\ \A j \in 1..(i - 1) : ~Contains(preferred[j].format_note, << res >>)
    ELSE 0

RECURSIVE BestByRank(_, _)
BestByRank(preferred, ranks) ==
    IF ranks = << >>
    THEN "best"
    ELSE IF FirstWithRes(preferred, Head(ranks)) # 0
         THEN preferred[FirstWithRes(preferred, Head(ranks))].format_id
         ELSE BestByRank(preferred, Tail(ranks))

select_best_format(formats) ==
    IF Preferred(formats) = << >>
    THEN "best"
    ELSE BestByRank(Preferred(formats), RANKED_RESOLUTIONS)

(***************************************************************************)
(* present_quality_options, lines 182-213: the buttons of the prompt.      *)
(***************************************************************************)
HasPresentableSize(f) == ~(f.filesize = 0 \/ f.filesize > PRESENT_SIZE_LIMIT)

IsVideoChoice(f) == HasPresentableSize(f) /\ f.vcodec # "none"

IsAudioChoice(f) == HasPresentableSize(f) /\ f.vcodec = "none" /\ f.acodec # "none"

VideoButton(f) ==
    [kind |-> "video", label |-> f.format_note, callback_data |-> << "format_", f.format_id >>]

AudioButton(f) ==
    [kind |-> "audio", label |-> << f.abr >>, callback_data |-> << "format_", f.format_id >>]

AutoButton == [kind |-> "auto", label |-> << >>, callback_data |-> << "format_", "auto" >>]

MapSeq(Op(_), s) == [i \in 1..Len(s) |-> Op(s[i])]

Buttons(formats) ==
    MapSeq(VideoButton, Take(SelectSeq(formats, IsVideoChoice), 4))
        \o MapSeq(AudioButton, Take(SelectSeq(formats, IsAudioChoice), 2))
        \o << AutoButton >>

(***************************************************************************)
(* Inputs: the texts a user sends, the answers of the collaborators.       *)
(***************************************************************************)
RawInputs ==
    { << "https://", "youtube.com", "/", "v1", " " >>,
      << "https://", "youtube.com", "/", "v2" >>,
      << "youtube.com", "/", "v1" >>,
      << "https://", "instagram.com" >> }

F_720 == Fmt("22", "mp4", "aac", "avc1", << "720", "p" >>, 40 * 1024 * 1024, "128")
F_m4a == Fmt("140", "m4a", "aac", "none", << "medium" >>, 3 * 1024 * 1024, "128")

FormatLists == { << F_720, F_m4a >> }

Durations == { LONG_VIDEO_DURATION, VERY_LONG_DURATION + 1 }

ExtractOutcomes == { "ok", "DownloadError" }

Sizes == { MAX_FILE_SIZE, MAX_FILE_SIZE + 1 }

\* the id yt-dlp gives the video a URL designates: its last path component
VideoId(url) == url[Len(url)]

\* Wider inputs of handle_url, for the specification UrlSpec: texts with and
\* without a scheme, with surrounding blanks, an alias host with tracking
\* parameters, the alias host without a scheme, the X host.
UrlInputs ==
    { << " ", "https://", "youtube.com", "/", "v1", " " >>,
      << "http://", "youtube.com", "/", "v1" >>,
      << "youtube.com", "/", "v1" >>,
      << "ftp://", "youtube.com", "/", "v1" >>,
      << "https://", "www.", "instagram.com", "/", "v1", "?", "utm" >>,
      << "instagram.com", "/", "v1" >>,
      << "https://", "x.com", "/", "v1" >> }

UrlDurations ==
    { LONG_VIDEO_DURATION, LONG_VIDEO_DURATION + 1, VERY_LONG_DURATION, VERY_LONG_DURATION + 1 }

UrlExtractOutcomes == { "ok", "DownloadError", "Exception" }

\* Wider format lists, for the specification FmtSpec.
\* Candidates of the automatic pick: mp4 with audio at 1080p, 720p, 480p, 360p,
\* above the ranks (2160p) and below them (240p), a video-only mp4 and a webm.
F_1080 == Fmt("37", "mp4", "aac", "avc1", << "1080", "p" >>, 90 * 1024 * 1024, "128")
F_480 == Fmt("135", "mp4", "aac", "avc1", << "480", "p" >>, 20 * 1024 * 1024, "128")
F_360 == Fmt("18", "mp4", "aac", "avc1", << "360", "p" >>, 10 * 1024 * 1024, "96")
F_240 == Fmt("133", "mp4", "aac", "avc1", << "240", "p" >>, 5 * 1024 * 1024, "64")
F_2160 == Fmt("401", "mp4", "aac", "av01", << "2160", "p" >>, PRESENT_SIZE_LIMIT + 1, "128")
F_1080_video_only == Fmt("137", "mp4", "none", "avc1", << "1080", "p" >>, 0, "0")
F_1080_webm == Fmt("248", "webm", "opus", "vp9", << "1080", "p" >>, 80 * 1024 * 1024, "128")

RankCandidates ==
    { F_1080, F_720, F_480, F_360, F_240, F_2160, F_1080_video_only, F_1080_webm }

\* the lists of at most MaxFormats candidates, in every order
RankLists ==
    UNION { [1..n -> RankCandidates] : n \in 0..MaxFormats }

\* Candidates of the prompt: a second 720p video, a video at the size ceiling,
\* two more audio streams, one with the bitrate of F_m4a.
F_720_video_only ==
    Fmt("136", "mp4", "none", "avc1", << "720", "p" >>, PRESENT_SIZE_LIMIT, "0")
F_opus == Fmt("251", "webm", "opus", "none", << "medium" >>, 3 * 1024 * 1024, "128")
F_opus_low == Fmt("249", "webm", "opus", "none", << "low" >>, 1024 * 1024, "50")

ChoiceCandidates ==
    << F_m4a, F_720, F_1080_video_only, F_720_video_only, F_opus, F_480, F_2160, F_360,
       F_1080, F_240, F_opus_low >>

RECURSIVE Sublists(_)
Sublists(s) ==
    IF s = << >>
    THEN { << >> }
    ELSE Sublists(Tail(s)) \cup { << Head(s) >> \o r : r \in Sublists(Tail(s)) }

\* every selection of the candidates, in the order of ChoiceCandidates
ChoiceLists == Sublists(ChoiceCandidates)

(***************************************************************************)
(* handle_url, lines 116-177, as a function of the text and of the         *)
(* collaborator's answers: what it stores, says and calls.                 *)
(***************************************************************************)
INSTAGRAM == << "instagram.com" >>
DDINSTAGRAM == << "dd", "instagram.com" >>

\* lines 121-125; the split of line 125 raises IndexError when "instagram.com/"
\* does not occur
InstagramCrashes(url) ==
    /\ Contains(url, INSTAGRAM)
    /\ ~SplitHasSecond(IF Contains(url, << "?" >>) THEN SplitFirst(url, << "?" >>) ELSE url,
                       << "instagram.com", "/" >>)

NormalizeInstagram(url) ==
    IF Contains(url, INSTAGRAM)
    THEN << "https://" >> \o DDINSTAGRAM \o << "/" >>
            \o SplitSecond(IF Contains(url, << "?" >>) THEN SplitFirst(url, << "?" >>) ELSE url,
                           << "instagram.com", "/" >>)
    ELSE url

\* lines 128-129
NormalizeTwitter(url) ==
    IF Contains(url, << "x.com" >>) THEN Replace(url, << "x.com" >>, << "twitter.com" >>) ELSE url

Normalize(raw) == NormalizeTwitter(NormalizeInstagram(Strip(raw)))

\* line 131
HasScheme(url) == StartsWith(url, << "http://" >>) \/ StartsWith(url, << "https://" >>)

\* line 142
OriginalUrl(url) == Replace(url, DDINSTAGRAM, INSTAGRAM)

\* a variant of HasFallback: no second attempt is ever made
HasFallback_Never(url) == FALSE

\* line 141
HasFallback(url) == Contains(url, DDINSTAGRAM)

Outcome(outcome, url, calls, msgs) ==
    [outcome |-> outcome, url |-> url, calls |-> calls, msgs |-> msgs]

ErrorReply(kind) == IF kind = "DownloadError" THEN "download_error" ELSE "could_not_download"

\* a variant of AfterExtraction: the rejection of line 155 does not return
AfterExtraction_NoReturn(url, calls, duration) ==
    IF duration > VERY_LONG_DURATION
    THEN Outcome("presented", url, calls, << "too_long", "choose_quality" >>)
    ELSE IF duration > LONG_VIDEO_DURATION
         THEN Outcome("presented", url, calls, << "long_note", "choose_quality" >>)
         ELSE Outcome("presented", url, calls, << "choose_quality" >>)

\* a variant of AfterExtraction: line 144 is left out, the URL of the first call
\* is kept
AfterExtraction_FirstUrl(url, calls, duration) ==
    IF duration > VERY_LONG_DURATION
    THEN Outcome("too_long", calls[1], calls, << "too_long" >>)
    ELSE IF duration > LONG_VIDEO_DURATION
         THEN Outcome("presented", calls[1], calls, << "long_note", "choose_quality" >>)
         ELSE Outcome("presented", calls[1], calls, << "choose_quality" >>)

\* a variant of AfterExtraction: the ceiling itself is rejected
AfterExtraction_CeilingInclusive(url, calls, duration) ==
    IF duration >= VERY_LONG_DURATION
    THEN Outcome("too_long", url, calls, << "too_long" >>)
    ELSE IF duration > LONG_VIDEO_DURATION
         THEN Outcome("presented", url, calls, << "long_note", "choose_quality" >>)
         ELSE Outcome("presented", url, calls, << "choose_quality" >>)

\* lines 151-170, once an extraction call has succeeded on url
AfterExtraction(url, calls, duration) ==
    IF duration > VERY_LONG_DURATION
    THEN Outcome("too_long", url, calls, << "too_long" >>)
    ELSE IF duration > LONG_VIDEO_DURATION
         THEN Outcome("presented", url, calls, << "long_note", "choose_quality" >>)
         ELSE Outcome("presented", url, calls, << "choose_quality" >>)

HandleUrlResult(raw, ex1, ex2, duration) ==
    IF InstagramCrashes(Strip(raw))
    THEN Outcome("crash", << >>, << >>, << >>)
    ELSE IF ~HasScheme(Normalize(raw))
    THEN Outcome("invalid", Normalize(raw), << >>, << "invalid_url" >>)
    ELSE IF ex1 = "ok"
    THEN AfterExtraction(Normalize(raw), << Normalize(raw) >>, duration)
    ELSE IF ~HasFallback(Normalize(raw))
    THEN Outcome("extract_failed", Normalize(raw), << Normalize(raw) >>, << ErrorReply(ex1) >>)
    ELSE IF ex2 = "ok"
    THEN AfterExtraction(OriginalUrl(Normalize(raw)),
                         << Normalize(raw), OriginalUrl(Normalize(raw)) >>, duration)
    ELSE Outcome("extract_failed", Normalize(raw),
                  << Normalize(raw), OriginalUrl(Normalize(raw)) >>, << "could_not_download" >>)

(***************************************************************************)
(* State.                                                                  *)
(*   user_data  context.user_data['video_info'] of each user; gen = 0 when *)
(*              the key is absent, else the number of the submission that  *)
(*              stored it (history, not read by the code)                  *)
(*   last       when the latest step was a handle_url: the text it got,    *)
(*              the answers of the extraction calls it made, the duration  *)
(*              it read, and what it said and called (user "" otherwise)   *)
(*   prompts    per submission, the buttons of the prompt it showed (none  *)
(*              when it showed no prompt)                                  *)
(*   jobs       per submission, its run_once job                           *)
(*   runs       the invocations of quality_callback / auto_select_quality, *)
(*              each with the position of its process_download; of a run   *)
(*              that has returned only its origin and whether it called    *)
(*              process_download stay                                      *)
(*   finished   when a run returned in the latest step: its number r and   *)
(*              the run as it was on return (r = 0 otherwise)              *)
(*   videos     the download artifacts that exist in TEMP_DIR              *)
(*   dirs       the chunk directories that exist, parts the files in them  *)
(*   clicks     the number of selection events received                    *)
(* The 'title' of a session only labels captions and is left out.          *)
(***************************************************************************)
VARIABLES user_data, last, prompts, jobs, runs, finished, videos, dirs, parts, clicks

vars == << user_data, last, prompts, jobs, runs, finished, videos, dirs, parts, clicks >>

Users == { "u1" }

NoSession == [gen |-> 0, url |-> << >>, duration |-> 0, formats |-> << >>, best_format |-> ""]

\* A run: one invocation of quality_callback or auto_select_quality.
\*   gen      the submission whose prompt or job invoked it
\*   cur      the submission whose session was stored when it was invoked
\*   called   whether it has called process_download
\*   sgen     the submission whose session process_download read (0: none)
\*   single   the number of calls of send_single_video
\*   sends    the sends of parts so far: the part sent and whether it succeeded
\*   msgs     the messages it has sent to the chat
NewRun(u, trigger, g, cur, format_id) ==
    [user |-> u, trigger |-> trigger, gen |-> g, cur |-> cur, format_id |-> format_id,
     pc |-> "process", called |-> FALSE, sgen |-> 0, fetch_url |-> << >>, fetch_fmt |-> "",
     filepath |-> "", size |-> 0, chunk_dir |-> 0, chunks |-> << >>, sends |-> << >>,
     single |-> 0, msgs |-> << >>, outcome |-> ""]

\* A message to the chat: its text and the number of delivered parts it names
\* (NoCount when it names none).
NoCount == 0 - 1

Msg(text) == [text |-> text, count |-> NoCount]

NoLast ==
    [user |-> "", raw |-> << >>, answers |-> << >>, duration |-> 0,
     result |-> Outcome("", << >>, << >>, << >>)]

NoFinished == [r |-> 0, run |-> NewRun("", "", 0, 0, "")]

Init ==
    /\ user_data = [u \in Users |-> NoSession]
    /\ last = NoLast
    /\ prompts = << >>
    /\ jobs = << >>
    /\ runs = << >>
    /\ finished = NoFinished
    /\ videos = {}
    /\ dirs = {}
    /\ parts = {}
    /\ clicks = 0

Finish(run, outcome, msgs) ==
    [run EXCEPT !.pc = "done", !.outcome = outcome, !.msgs = run.msgs \o msgs]

\* what stays of a run that has returned
Returned(run) ==
    [NewRun(run.user, run.trigger, run.gen, run.cur, "") EXCEPT
        !.pc = "done", !.called = run.called]

\* run r moves on to nxt
Step(r, nxt) ==
    /\ runs' = [runs EXCEPT ![r] = IF nxt.pc = "done" THEN Returned(nxt) ELSE nxt]
    /\ finished' = IF nxt.pc = "done" THEN [r |-> r, run |-> nxt] ELSE NoFinished
    /\ last' = NoLast

\* a handler is invoked and reaches nxt
Invoke(nxt) ==
    /\ runs' = Append(runs, IF nxt.pc = "done" THEN Returned(nxt) ELSE nxt)
    /\ finished' = IF nxt.pc = "done" THEN [r |-> Len(runs) + 1, run |-> nxt] ELSE NoFinished
    /\ last' = NoLast

\* The application processes updates one at a time (main, lines 352-360, builds
\* it without concurrent updates): a message or click handler starts only when
\* the previous one has returned.  Jobs of the job queue run beside them.
UpdateInProgress == \E r \in 1..Len(runs) : runs[r].trigger = "click" /\ runs[r].pc # "done"

(***************************************************************************)
(* handle_url, lines 116-177, with present_quality_options, lines 180-227. *)
(***************************************************************************)
\* HandleUrlResult over the inputs of the model; f @@ << >> is f as an explicit
\* table, computed once
HandleUrlTable ==
    [in \in (RawInputs \cup UrlInputs) \X (ExtractOutcomes \cup UrlExtractOutcomes)
                \X (ExtractOutcomes \cup UrlExtractOutcomes) \X (Durations \cup UrlDurations) |->
        HandleUrlResult(in[1], in[2], in[3], in[4])] @@ << >>

\* line 151: the duration is read once an extraction call has succeeded
DurationRead(res, duration) ==
    IF res.outcome \in { "too_long", "presented" } THEN duration ELSE 0

\* the answers the extraction collaborator gave to the calls that were made
Answers(res, ex1, ex2) == SubSeq(<< ex1, ex2 >>, 1, Len(res.calls))

handle_url(u, raw, ex1, ex2, duration, formats) ==
    LET res == HandleUrlTable[<< raw, ex1, ex2, duration >>]
        g == Len(prompts) + 1
    IN  /\ Len(prompts) < MaxSubmissions
        /\ ~UpdateInProgress
        /\ last' = [user |-> u, raw |-> raw, answers |-> Answers(res, ex1, ex2),
                    duration |-> DurationRead(res, duration), result |-> res]
        /\ prompts' = Append(prompts,
                [user |-> u,
                 buttons |-> IF res.outcome = "presented" THEN Buttons(formats) ELSE << >>])
        /\ user_data' =
                IF res.outcome = "presented"
                THEN [user_data EXCEPT ![u] =
                        [gen |-> g, url |-> res.url, duration |-> duration, formats |-> formats,
                         best_format |-> select_best_format(formats)]]
                ELSE user_data
        /\ jobs' = Append(jobs, IF res.outcome = "presented" THEN "pending" ELSE "none")
        /\ finished' = NoFinished
        /\ UNCHANGED << runs, videos, dirs, parts, clicks >>

(***************************************************************************)
(* quality_callback, lines 253-268, up to the call of process_download.    *)
(* editOk: whether query.answer and edit_message_text succeed; when one    *)
(* raises, the handler ends with the exception and calls nothing more.     *)
(* Plain text messages (reply_text, send_message) are taken to be sent.    *)
(***************************************************************************)
FormatIdOf(data) ==
    LET id == Replace(data, << "format_" >>, << >>)
    IN  IF id = << >> THEN "" ELSE id[1]

ResolveClick(u, data) ==
    IF FormatIdOf(data) = "auto" THEN user_data[u].best_format ELSE FormatIdOf(data)

\* lines 262-263 and 234-239: the handler calls process_download once its edit is done
CallsDownload(editOk) == editOk

quality_callback(u, g, b, editOk) ==
    LET run == NewRun(u, "click", g, user_data[u].gen,
                     ResolveClick(u, prompts[g].buttons[b].callback_data))
    IN  /\ clicks < MaxClicks
        /\ ~UpdateInProgress
        /\ g \in 1..Len(prompts)
        /\ prompts[g].user = u
        /\ b \in 1..Len(prompts[g].buttons)
        /\ clicks' = clicks + 1
        /\ Invoke(IF CallsDownload(editOk)
                  THEN [run EXCEPT !.called = TRUE]
                  ELSE Finish(run, "handler_error", << >>))
        /\ UNCHANGED << user_data, prompts, jobs, videos, dirs, parts >>

(***************************************************************************)
(* auto_select_quality, lines 230-250, up to the call of process_download. *)
(***************************************************************************)
auto_select_quality(g, editOk) ==
    LET run == NewRun(prompts[g].user, "timer", g, user_data[prompts[g].user].gen, "auto")
    IN  /\ g \in 1..Len(jobs)
        /\ jobs[g] = "pending"
        /\ jobs' = [jobs EXCEPT ![g] = "fired"]
        /\ Invoke(IF CallsDownload(editOk)
                  THEN [run EXCEPT !.called = TRUE]
                  ELSE Finish(run, "handler_failed", << Msg("timed_out") >>))
        /\ UNCHANGED << user_data, prompts, videos, dirs, parts, clicks >>

(***************************************************************************)
(* process_download, lines 271-296.                                        *)
(* Lines 274-276 find the session through a context built on the spot.     *)
(* What the library answers there is outside the source: the model takes   *)
(* both answers, the stored session of the user (found) and an exception.  *)
(* download_video blocks the event loop, so lines 274-286 are one step.    *)
(***************************************************************************)
ResolveFormat(format_id, video_info) ==
    IF format_id # "auto" THEN format_id ELSE video_info.best_format

\* a variant of NeedsSplit: the boundary on the wrong side
NeedsSplit_Strict(file_size) == ~(file_size < MAX_FILE_SIZE)

NeedsSplit(file_size) == ~(file_size <= MAX_FILE_SIZE)

\* a variant of RemoveDownload: the finally clause removes nothing
RemoveDownload_Kept(files, filepath) == files

\* lines 294-296
RemoveDownload(files, filepath) == files \ { filepath }

process_download(r, found, fetchOk, size) ==
    LET run == runs[r]
        video_info == user_data[run.user]
        fetched == [run EXCEPT !.sgen = video_info.gen,
                               !.fetch_url = video_info.url,
                               !.fetch_fmt = ResolveFormat(run.format_id, video_info)]
    IN  /\ run.pc = "process"
        /\ IF ~found \/ video_info.gen = 0
           THEN /\ Step(r, Finish(run, "failed", << Msg("download_failed") >>))
                /\ UNCHANGED videos
           ELSE IF ~fetchOk
           THEN /\ Step(r, Finish(fetched, "failed", << Msg("download_failed") >>))
                /\ UNCHANGED videos
           ELSE /\ Step(r, [fetched EXCEPT !.filepath = VideoId(video_info.url),
                                           !.size = size,
                                           !.pc = IF NeedsSplit(size) THEN "split"
                                                  ELSE "send_single"])
                /\ videos' = videos \cup { VideoId(video_info.url) }
        /\ UNCHANGED << user_data, prompts, jobs, dirs, parts, clicks >>

(***************************************************************************)
(* send_single_video, lines 299-308, then lines 291-296 of its caller.     *)
(* sendOk: whether the chat action and send_video succeed.                 *)
(***************************************************************************)
send_single_video(r, sendOk) ==
    LET run == runs[r]
        opened == run.filepath \in videos
        tried == [run EXCEPT !.single = run.single + 1]
    IN  /\ run.pc = "send_single"
        /\ Step(r, IF opened /\ sendOk
                   THEN Finish(tried, "delivered", << >>)
                   ELSE Finish(tried, "failed", << Msg("download_failed") >>))
        /\ videos' = RemoveDownload(videos, run.filepath)
        /\ UNCHANGED << user_data, prompts, jobs, dirs, parts, clicks >>

(***************************************************************************)
(* split_and_send_video, lines 311-347, then lines 291-296 of its caller.  *)
(* Part files are named part_000, part_001, ...: a part file is modelled   *)
(* as its number, and the order of the names is the order of the numbers.  *)
(***************************************************************************)
\* what os.listdir may answer for a directory holding the files 0..n-1
Listings(n) ==
    { l \in [1..n -> 0..(n - 1)] : \A i, j \in 1..n : l[i] = l[j] => i = j }

\* a variant of SortedChunks: the listing is used as os.listdir gave it
SortedChunks_Unsorted(listing) == listing

\* line 330
SortedChunks(listing) == SortSeq(listing, LAMBDA a, b : a < b)

\* lines 342-347
CleanupDirs(ds, chunk_dir) == ds \ { chunk_dir }

CleanupParts(ps, chunk_dir) == { p \in ps : p[1] # chunk_dir }

\* line 341, reached when the loop of lines 331-339 has ended without raising
AfterLoop(chunks) == << Msg("all_parts_sent") >>

\* line 293, reached when a send of the loop raised: str(e) is the transport's text
AfterSendError(sends) == << Msg("download_failed") >>

\* line 315: the directory is named by the time of the call; the calls of two
\* runs are at different times, and the directory of run r is modelled as r
ChunkDir(r) == r

\* lines 313-330: announce, make the directory, cut, list
split_and_send_video(r, ffmpegOk, n, listing) ==
    LET run == runs[r]
        told == [run EXCEPT !.msgs = run.msgs \o << Msg("splitting") >>, !.chunk_dir = ChunkDir(r)]
    IN  /\ run.pc = "split"
        /\ IF ~ffmpegOk \/ run.filepath \notin videos
           THEN /\ Step(r, Finish(told, "failed", << Msg("download_failed") >>))
                /\ videos' = RemoveDownload(videos, run.filepath)
                /\ UNCHANGED << dirs, parts >>
           ELSE IF n = 0
           THEN /\ Step(r, Finish(told, "delivered", AfterLoop(<< >>)))
                /\ videos' = RemoveDownload(videos, run.filepath)
                /\ UNCHANGED << dirs, parts >>
           ELSE /\ Step(r, [told EXCEPT !.chunks = SortedChunks(listing), !.pc = "send_chunk"])
                /\ dirs' = dirs \cup { ChunkDir(r) }
                /\ parts' = parts \cup { << ChunkDir(r), k >> : k \in 0..(n - 1) }
                /\ UNCHANGED videos
        /\ UNCHANGED << user_data, prompts, jobs, clicks >>

\* lines 331-341, one turn of the loop: the chunk at position Len(sends) + 1
send_chunk(r, sendOk) ==
    LET run == runs[r]
        i == Len(run.sends) + 1
        opened == << run.chunk_dir, run.chunks[i] >> \in parts
        ok == opened /\ sendOk
        tried == [run EXCEPT !.sends = Append(run.sends, [part |-> run.chunks[i] + 1, ok |-> ok])]
    IN  /\ run.pc = "send_chunk"
        /\ IF ok /\ i < Len(run.chunks)
           THEN /\ Step(r, tried)
                /\ UNCHANGED << videos, dirs, parts >>
           ELSE /\ Step(r, IF ok
                           THEN Finish(tried, "delivered", AfterLoop(run.chunks))
                           ELSE Finish(tried, "failed", AfterSendError(tried.sends)))
                /\ dirs' = CleanupDirs(dirs, run.chunk_dir)
                /\ parts' = CleanupParts(parts, run.chunk_dir)
                /\ videos' = RemoveDownload(videos, run.filepath)
        /\ UNCHANGED << user_data, prompts, jobs, clicks >>

(***************************************************************************)
(* The specification.                                                      *)
(***************************************************************************)
Submit ==
    \E u \in Users, raw \in RawInputs, ex1, ex2 \in ExtractOutcomes,
       duration \in Durations, formats \in FormatLists :
        handle_url(u, raw, ex1, ex2, duration, formats)

Click ==
    \E u \in Users, g \in 1..Len(prompts), b \in 1..7, editOk \in BOOLEAN :
        quality_callback(u, g, b, editOk)

Timeout == \E g \in 1..Len(jobs), editOk \in BOOLEAN : auto_select_quality(g, editOk)

Download ==
    \E r \in 1..Len(runs), found, fetchOk \in BOOLEAN, size \in Sizes :
        process_download(r, found, fetchOk, size)

SendSingle == \E r \in 1..Len(runs), sendOk \in BOOLEAN : send_single_video(r, sendOk)

Split ==
    \E r \in 1..Len(runs), ffmpegOk \in BOOLEAN, n \in 0..MaxParts :
        \E listing \in Listings(n) : split_and_send_video(r, ffmpegOk, n, listing)

SendChunk == \E r \in 1..Len(runs), sendOk \in BOOLEAN : send_chunk(r, sendOk)

Next == Submit \/ Click \/ Timeout \/ Download \/ SendSingle \/ Split \/ SendChunk

Spec == Init /\ [][Next]_vars

(***************************************************************************)
(* UrlSpec: the submissions over the wider texts, durations and answers of *)
(* the extraction collaborator, each followed by its timeout job and the   *)
(* pipeline the job starts.                                                *)
(***************************************************************************)
UrlSubmit ==
    \E u \in Users, raw \in UrlInputs, ex1, ex2 \in UrlExtractOutcomes,
       duration \in UrlDurations, formats \in FormatLists :
        handle_url(u, raw, ex1, ex2, duration, formats)

UrlNext == UrlSubmit \/ Timeout \/ Download \/ SendSingle \/ Split \/ SendChunk

UrlSpec == Init /\ [][UrlNext]_vars

(***************************************************************************)
(* FmtSpec: one submission whose extraction succeeds, over the wider lists *)
(* of formats: select_best_format and present_quality_options applied to   *)
(* each list.                                                              *)
(***************************************************************************)
FmtSubmit ==
    \E u \in Users, formats \in RankLists \cup ChoiceLists :
        /\ prompts = << >>
        /\ handle_url(u, << "https://", "youtube.com", "/", "v2" >>, "ok", "ok",
                      LONG_VIDEO_DURATION, formats)

FmtNext == FmtSubmit

FmtSpec == Init /\ [][FmtNext]_vars

(***************************************************************************)
(* Properties.                                                             *)
(***************************************************************************)
RunIds == 1..Len(runs)

Active(r) == runs[r].pc # "done"

\* the runs whose whole record is in the state: those under way and the one
\* that has just returned
Watched ==
    { runs[r] : r \in { q \in RunIds : Active(q) } }
        \cup (IF finished.r # 0 THEN { finished.run } ELSE {})

Texts(msgs) == { msgs[i].text : i \in 1..Len(msgs) }

JustReturned == finished.r # 0

\* C1: for every session whose choices were presented, the pick and the
\* timeout never both resolve it: process_download is called at most once
\* for that session.
C1_ResolvedAtMostOnce ==
    \A g \in 1..Len(prompts) :
        Cardinality({ r \in RunIds : runs[r].gen = g /\ runs[r].called }) <= 1

\* C2: the timeout job of a session that was superseded before the job fired
\* does nothing when it fires: it does not call process_download.
C2_StaleTimeoutDoesNothing ==
    \A r \in RunIds :
        (runs[r].trigger = "timer" /\ runs[r].cur # runs[r].gen) => ~runs[r].called

\* C3: a selection event that arrives after its session has been resolved
\* (process_download was already called for it) starts no further download.
C3_LateSelectionIsNoOp ==
    \A r \in RunIds :
        ( /\ runs[r].trigger = "click"
          /\ \E q \in 1..(r - 1) : runs[q].gen = runs[r].gen /\ runs[q].called )
        => ~runs[r].called

Picked(g) == \E q \in RunIds : runs[q].trigger = "click" /\ runs[q].gen = g

\* C5: when the timeout handler of a presented session that was neither
\* superseded nor picked has returned, the pipeline was started with that
\* session's automatic-best format id and has reached its outcome.
C5_TimeoutResolves ==
    /\ \A r \in RunIds :
        ( /\ runs[r].trigger = "timer"
          /\ runs[r].pc = "done"
          /\ runs[r].cur = runs[r].gen
          /\ ~Picked(runs[r].gen) )
        => runs[r].called
    /\ ( /\ JustReturned
         /\ finished.run.trigger = "timer"
         /\ finished.run.cur = finished.run.gen
         /\ user_data[finished.run.user].gen = finished.run.gen
         /\ ~Picked(finished.run.gen) )
        => /\ finished.run.sgen = finished.run.gen
           /\ finished.run.fetch_fmt = user_data[finished.run.user].best_format

\* C6: a downloaded artifact of at most MAX_FILE_SIZE bytes is sent by exactly
\* one call of send_single_video and is not split; a larger one is split and
\* is never sent whole.
C6_SplitDecision ==
    \A w \in Watched :
        w.filepath # "" =>
            IF w.size <= MAX_FILE_SIZE
            THEN /\ w.pc \in { "send_single", "done" }
                 /\ w.chunk_dir = 0
                 /\ w.sends = << >>
                 /\ "splitting" \notin Texts(w.msgs)
                 /\ w.single = (IF w.pc = "done" THEN 1 ELSE 0)
            ELSE /\ w.pc \in { "split", "send_chunk", "done" }
                 /\ w.single = 0
                 /\ w.pc # "split" => "splitting" \in Texts(w.msgs)

\* an artifact of exactly MAX_FILE_SIZE bytes has just been delivered whole
C6_Witness ==
    /\ JustReturned
    /\ finished.run.size = MAX_FILE_SIZE
    /\ finished.run.outcome = "delivered"
    /\ finished.run.single = 1

\* C7: the parts of a split artifact are sent in the order 1, 2, ..., N: the
\* i-th send is the send of part i, a part is sent only after the sends of all
\* parts before it have succeeded, and no part is sent twice.
C7_PartsInOrder ==
    \A w \in Watched :
        /\ Len(w.sends) <= Len(w.chunks)
        /\ \A i \in 1..Len(w.sends) : w.sends[i].part = i
        /\ \A i \in 1..(Len(w.sends) - 1) : w.sends[i].ok

\* all the parts of an artifact split in two or more have just been sent
C7_Witness ==
    /\ JustReturned
    /\ finished.run.outcome = "delivered"
    /\ Len(finished.run.sends) >= 2
    /\ Len(finished.run.sends) = Len(finished.run.chunks)

\* the run stopped on the failed send of part k
PartSendFailedAt(run, k) ==
    /\ Len(run.sends) = k
    /\ k >= 1
    /\ ~run.sends[k].ok

\* C8: when the send of part k fails, no later part is sent, a message names
\* k-1 as the number of parts that succeeded, no success message is sent, and
\* the chunk directory is removed.
C8_PartialFailureNamed ==
    \A k \in 1..MaxParts :
        (JustReturned /\ PartSendFailedAt(finished.run, k)) =>
            /\ \E i \in 1..Len(finished.run.msgs) : finished.run.msgs[i].count = k - 1
            /\ "all_parts_sent" \notin Texts(finished.run.msgs)
            /\ finished.run.chunk_dir \notin dirs

\* the run entered the split and got no part file, ffmpeg raising or not
SplitGaveNothing(run) == run.chunk_dir # 0 /\ run.chunks = << >>

\* C9: when the segmentation fails or produces no part file, the run ends as
\* failed, sends no part and never says "all parts sent successfully".
C9_EmptySplitFails ==
    (JustReturned /\ SplitGaveNothing(finished.run)) =>
        /\ finished.run.outcome = "failed"
        /\ finished.run.sends = << >>
        /\ "all_parts_sent" \notin Texts(finished.run.msgs)

FailureTexts ==
    { "invalid_url", "too_long", "download_error", "could_not_download",
      "download_failed", "timed_out" }

FailureCount(texts) == Cardinality({ i \in 1..Len(texts) : texts[i] \in FailureTexts })

SubmissionFailed == last.result.outcome \in { "invalid", "crash", "extract_failed", "too_long" }

RunFailed(run) == run.outcome \in { "failed", "handler_failed" } \/ SplitGaveNothing(run)

\* C10: every failure of a submission or of a run produces exactly one
\* failure message to the user: never zero and never two.
C10_OneFailureMessage ==
    /\ SubmissionFailed => FailureCount(last.result.msgs) = 1
    /\ (JustReturned /\ RunFailed(finished.run)) =>
            FailureCount([i \in 1..Len(finished.run.msgs) |-> finished.run.msgs[i].text]) = 1

\* process_download has just returned
DownloadReturned == JustReturned /\ finished.run.called

\* C13: when a run of process_download has returned, with success or with
\* failure, the session of its user is no longer in the store; and the store
\* holds at most one session per user.
C13_SessionDestroyed ==
    /\ DOMAIN user_data = Users
    /\ DownloadReturned => user_data[finished.run.user].gen = 0

\* the run holds a download artifact
HoldsArtifact(r) == Active(r) /\ runs[r].filepath # ""

\* C14: two runs that are under way at the same time never hold the same
\* download path, and the file a run has still to send is there when the run
\* comes to send it.
C14_DistinctPaths ==
    /\ \A r, q \in RunIds :
        (r # q /\ HoldsArtifact(r) /\ HoldsArtifact(q)) => runs[r].filepath # runs[q].filepath
    /\ \A r \in RunIds :
        (HoldsArtifact(r) /\ runs[r].pc \in { "send_single", "split" }) => runs[r].filepath \in videos

\* the run has gone through lines 274-282 of process_download
PastFetch(w) == w.called /\ w.pc # "process"

\* C18: a run of process_download for a user whose submission stored a session
\* calls the fetch collaborator, with the URL of the stored session and with
\* the picked format id, or the session's automatic-best id when the pick is
\* "auto"; it does not fail for want of the session.
C18_FetchesStoredSession ==
    \A w \in Watched :
        (PastFetch(w) /\ w.cur # 0) =>
            /\ w.sgen # 0
            /\ w.sgen = user_data[w.user].gen =>
                /\ w.fetch_url = user_data[w.user].url
                /\ w.fetch_fmt = (IF w.format_id = "auto"
                                  THEN user_data[w.user].best_format
                                  ELSE w.format_id)

(***************************************************************************)
(* Properties of handle_url, checked under UrlSpec.                        *)
(***************************************************************************)
Submitted == last.user # ""

\* the number of the submission handled in the latest step
LastSub == Len(prompts)

\* the submission handled in the latest step stored a session
StoredSession == user_data[last.user].gen = LastSub

\* the submission handled in the latest step showed the choice prompt
ShowedChoices ==
    /\ prompts[LastSub].buttons # << >>
    /\ jobs[LastSub] # "none"

\* C11: a text that, once trimmed, does not begin with http:// or https:// is
\* rejected whatever host it names: the extraction collaborator is not called
\* and the submission stores no session.
C11_SchemelessRejected ==
    (Submitted /\ ~HasScheme(Strip(last.raw))) =>
        /\ last.result.calls = << >>
        /\ ~StoredSession
        /\ ~ShowedChoices

\* an extraction call of the submission handled in the latest step succeeded
ExtractionSucceeded ==
    /\ Submitted
    /\ last.answers # << >>
    /\ last.answers[Len(last.answers)] = "ok"

Count(msgs, text) == Cardinality({ i \in 1..Len(msgs) : msgs[i] = text })

\* C12: a duration above 7200 s is rejected, with no session stored and no
\* choice shown; a duration above 1800 s and at most 7200 s is accepted with
\* exactly one long-running advisory; a duration of at most 1800 s is
\* accepted with no advisory.
C12_DurationPolicy ==
    ExtractionSucceeded =>
        IF last.duration > 7200
        THEN /\ ~StoredSession
             /\ ~ShowedChoices
             /\ Count(last.result.msgs, "too_long") = 1
             /\ Count(last.result.msgs, "long_note") = 0
             /\ Count(last.result.msgs, "choose_quality") = 0
        ELSE /\ StoredSession
             /\ ShowedChoices
             /\ user_data[last.user].duration = last.duration
             /\ Count(last.result.msgs, "too_long") = 0
             /\ Count(last.result.msgs, "choose_quality") = 1
             /\ Count(last.result.msgs, "long_note") = (IF last.duration > 1800 THEN 1 ELSE 0)

\* a source of exactly 7200 s has just been accepted with the advisory
C12_Witness ==
    /\ ExtractionSucceeded
    /\ last.duration = 7200
    /\ StoredSession
    /\ Count(last.result.msgs, "long_note") = 1

\* the text passed the scheme check of line 131
PassedSchemeCheck == Submitted /\ HasScheme(last.result.url)

FailureReplies(msgs) == Count(msgs, "download_error") + Count(msgs, "could_not_download")

\* C17: a submission that passes the scheme check calls the extraction
\* collaborator once on the rewritten URL, and once more, on that URL with the
\* original host put back, exactly when the first call failed and the URL was
\* rewritten to the mirror host; a failure is reported exactly when the last
\* call made has failed; there are never more than two calls.
C17_ExtractionCalls ==
    PassedSchemeCheck =>
        /\ Len(last.result.calls) \in { 1, 2 }
        /\ Len(last.answers) = Len(last.result.calls)
        /\ last.result.calls[1] = Normalize(last.raw)
        /\ Len(last.result.calls) = 2 <=>
                (last.answers[1] # "ok" /\ Contains(last.result.calls[1], DDINSTAGRAM))
        /\ Len(last.result.calls) = 2 =>
                /\ last.result.calls[2] = Replace(last.result.calls[1], DDINSTAGRAM, INSTAGRAM)
                /\ ~Contains(last.result.calls[2], DDINSTAGRAM)
        /\ FailureReplies(last.result.msgs) =
                (IF last.answers[Len(last.answers)] = "ok" THEN 0 ELSE 1)

\* the first call failed, the fallback call succeeded and the session is stored
C17_Witness ==
    /\ PassedSchemeCheck
    /\ last.answers = << "DownloadError", "ok" >>
    /\ StoredSession

\* the submission handled in the latest step was rejected: for want of a
\* scheme, by the failure of every extraction call, or for its duration
Rejected ==
    /\ Submitted
    /\ \/ last.result.outcome = "invalid"
       \/ (last.answers # << >> /\ last.answers[Len(last.answers)] # "ok")
       \/ (ExtractionSucceeded /\ last.duration > 7200)

\* C19: a submission that handle_url rejects leaves the session store as it
\* was: an existing session is kept whole and none is created.
C19_RejectionKeepsSession == [][Rejected' => user_data' = user_data]_vars

\* the second submission has just been rejected for its duration and the
\* session of the first is still stored
C19_Witness ==
    /\ ExtractionSucceeded
    /\ last.duration > 7200
    /\ LastSub = 2
    /\ user_data[last.user].gen = 1

\* C20: the URL stored in a session is the URL of the extraction call that
\* succeeded, the rewritten URL when the first call succeeded and the URL with
\* the original host when only the fallback did; and the URL passed to the
\* fetch collaborator is the URL of the session read.
C20_StoredUrlIsExtracted ==
    /\ (Submitted /\ StoredSession) =>
            /\ ExtractionSucceeded
            /\ user_data[last.user].url = last.result.calls[Len(last.answers)]
            /\ Len(last.answers) = 1 => user_data[last.user].url = Normalize(last.raw)
            /\ Len(last.answers) = 2 => ~Contains(user_data[last.user].url, DDINSTAGRAM)
    /\ \A w \in Watched :
            (w.sgen # 0 /\ w.sgen = user_data[w.user].gen) => w.fetch_url = user_data[w.user].url

\* a fetch has been made with the URL on which only the fallback succeeded
C20_Witness ==
    \E w \in Watched :
        /\ w.sgen # 0
        /\ Contains(w.fetch_url, INSTAGRAM)
        /\ ~Contains(w.fetch_url, DDINSTAGRAM)

(***************************************************************************)
(* Properties of present_quality_options and select_best_format, checked   *)
(* under FmtSpec.                                                          *)
(***************************************************************************)
\* the formats of the session stored in the latest step, and its prompt
SessionFormats == user_data[last.user].formats

Choices == prompts[LastSub].buttons

OfKind(buttons, kind) == { i \in 1..Len(buttons) : buttons[i].kind = kind }

\* the button offers a format of the list whose size is known and at most
\* the ceiling of 500 MiB
OffersPresentable(b, formats) ==
    \E i \in 1..Len(formats) :
        /\ b.callback_data = << "format_", formats[i].format_id >>
        /\ formats[i].filesize # 0
        /\ formats[i].filesize <= 500 * 1024 * 1024

\* C15: the choice list holds at most 4 video choices, then at most 2 audio
\* choices, then the automatic choice, once and last; every choice but the
\* automatic one offers a format of known size at most the ceiling; and no
\* two choices of a kind carry the same label.
C15_ChoiceList ==
    (Submitted /\ StoredSession) =>
        /\ Choices # << >>
        /\ OfKind(Choices, "auto") = { Len(Choices) }
        /\ Cardinality(OfKind(Choices, "video")) <= 4
        /\ Cardinality(OfKind(Choices, "audio")) <= 2
        /\ \A i \in OfKind(Choices, "audio"), j \in OfKind(Choices, "video") : j < i
        /\ \A i \in 1..(Len(Choices) - 1) : OffersPresentable(Choices[i], SessionFormats)
        /\ \A i, j \in 1..Len(Choices) :
                (i < j /\ Choices[i].kind = Choices[j].kind) => Choices[i].label # Choices[j].label

\* the labelled resolution of a format
Resolution(f) ==
    CASE f.format_note[1] = "2160" -> 2160
      [] f.format_note[1] = "1080" -> 1080
      [] f.format_note[1] = "720" -> 720
      [] f.format_note[1] = "480" -> 480
      [] f.format_note[1] = "360" -> 360
      [] f.format_note[1] = "240" -> 240
      [] OTHER -> 0

\* an mp4 candidate with a usable stream whose resolution is one of the ranks
Rankable(f) ==
    /\ f.ext = "mp4"
    /\ (f.acodec # "none" \/ f.vcodec = "none")
    /\ Resolution(f) \in { 1080, 720, 480, 360 }

Ids(formats) == { formats[i].format_id : i \in 1..Len(formats) }

\* C16: the automatic pick is the mp4 candidate with a usable stream of the
\* highest labelled resolution among 1080, 720, 480 and 360, and "best" when
\* there is no such candidate; for 720p, 480p and 360p, all mp4 with audio, it
\* is the 720p candidate.
C16_BestFormat ==
    (Submitted /\ StoredSession) =>
        LET formats == SessionFormats
            best == user_data[last.user].best_format
            rankable == { i \in 1..Len(formats) : Rankable(formats[i]) }
        IN  /\ rankable = {} => best = "best"
            /\ rankable # {} =>
                    \E i \in rankable :
                        /\ best = formats[i].format_id
                        /\ \A j \in rankable : Resolution(formats[j]) <= Resolution(formats[i])
            /\ (Len(formats) = 3 /\ Ids(formats) = Ids(<< F_720, F_480, F_360 >>)) =>
                    best = F_720.format_id

\* the session of the candidates 360p, 480p, 720p, listed from the lowest up,
\* has been stored with the 720p candidate as its automatic pick
C16_Witness ==
    /\ Submitted
    /\ StoredSession
    /\ SessionFormats = << F_360, F_480, F_720 >>
    /\ user_data[last.user].best_format = F_720.format_id

====
